---- MODULE Spec2Model ----
(***************************************************************************)
(* The ledger pruners of storage/aptosdb/src/pruner: EventStorePruner and  *)
(* WriteSetPruner, two implementations of the DBPruner contract, over a    *)
(* versioned store of five schemas.                                        *)
(*                                                                         *)
(* One behaviour follows the pruner of one implementation, constructed     *)
(* again at every restart, and the store it prunes.  Every handler is one  *)
(* action; for what other threads see and do while a prune call is in      *)
(* flight, prune is also given one action per routine it calls, for each   *)
(* of two calling threads.                                                 *)
(* The store routines the pruners call (EventStore::prune_*,               *)
(* prune_write_set, get_events_by_version_iter, DB::write_schemas) and the *)
(* trait's default method get_currrent_batch_target are not part of the    *)
(* two source files; they are modelled from the specification.             *)
(***************************************************************************)
EXTENDS Integers, Sequences, FiniteSets, TLC

\* ---------------------------------------------------------------- bounds
\* Versions of the ledger are 0 .. MaxVersion-1; targets are 0 .. MaxVersion.
MaxVersion == 2
\* max_versions of a prune call is drawn from 0 .. MaxStep.
MaxStep == 2

\* A candidate list given to the per-key fold on its own has at most
\* MaxCandidates events.
MaxCandidates == 3

\* u64 arithmetic is arithmetic modulo 2^64.  TLC's integers have 32 bits, so
\* the modulus is scaled to 2^30, far above every version of the model: what a
\* wrap-around does (a difference below zero becomes a count larger than any
\* version range) is kept.
U64Modulus == 2^30

Versions == 0..MaxVersion
LedgerVersions == 0..(MaxVersion - 1)
Steps == 0..MaxStep

\* The lists of event keys (1 and 2) one version of the ledger may emit.
EventLists == {<<>>, <<1>>, <<2, 1>>}

\* ------------------------------------------------------------ names
EVENT_STORE_PRUNER_NAME == "event store pruner"
TRANSACTION_STORE_PRUNER_NAME == "transaction store pruner"
PrunerNames == {EVENT_STORE_PRUNER_NAME, TRANSACTION_STORE_PRUNER_NAME}

VARIABLES
    pruner,                  \* name() of the instance this behaviour follows
    overflow_checks,         \* the build: TRUE when integer overflow panics
    db,                      \* the store: schema -> set of rows [key, val]
    target_version,          \* AtomicVersion field of the pruner
    least_readable_version,  \* AtomicVersion field of the pruner
    gauge,                   \* DIEM_PRUNER_LEAST_READABLE_VERSION: label -> i64
    ledger,                  \* history: everything ever written to the store
    last,                    \* history: the last completed call; for prune and the scan, the state before it
    calls,                   \* thread -> the prune call it has in flight, step by step
    reader                   \* a thread that reads the low-water mark, then a record

vars == <<pruner, overflow_checks, db, target_version, least_readable_version,
          gauge, ledger, last, calls, reader>>

\* ------------------------------------------------------------ helpers
Min(a, b) == IF a <= b THEN a ELSE b

Dist(a, b) == IF a >= b THEN a - b ELSE b - a

\* Keys of one schema are tuples of integers, ordered lexicographically.
TupleLess(a, b) ==
    \E i \in 1..Len(a) :
        /\ a[i] < b[i]
        /\ \A j \in 1..(i - 1) : a[j] = b[j]

TupleLeq(a, b) == a = b \/ TupleLess(a, b)

\* The row of S with the lowest key.
FirstRow(S) == CHOOSE r \in S : \A q \in S : TupleLeq(r.key, q.key)

\* The rows of S as a sequence in key order.
RECURSIVE RowsInOrder(_)
RowsInOrder(S) ==
    IF S = {} THEN <<>>
    ELSE LET r == FirstRow(S) IN <<r>> \o RowsInOrder(S \ {r})

\* ------------------------------------------------------------ the ledger
\* The store a ledger writes when version v emits the events of keys evs[v]:
\* each key's sequence numbers count up from 0 in (version, index) order.
Slots(evs) == UNION {{<<v, i>> : i \in 1..Len(evs[v])} : v \in DOMAIN evs}

SeqNo(evs, v, i) ==
    Cardinality({s \in Slots(evs) :
                    /\ evs[s[1]][s[2]] = evs[v][i]
                    /\ TupleLess(s, <<v, i>>)})

\* Event i (from 1) of version v: its index in the version is i-1.  A version
\* with n > 0 events has the accumulator positions 0 .. 2(n-1).
LedgerOf(evs) ==
    [EventSchema |->
        {[key |-> <<s[1], s[2] - 1>>,
          val |-> <<evs[s[1]][s[2]], SeqNo(evs, s[1], s[2])>>] : s \in Slots(evs)},
     EventByKeySchema |->
        {[key |-> <<evs[s[1]][s[2]], SeqNo(evs, s[1], s[2])>>,
          val |-> <<s[1], s[2] - 1>>] : s \in Slots(evs)},
     EventByVersionSchema |->
        {[key |-> <<evs[s[1]][s[2]], s[1], SeqNo(evs, s[1], s[2])>>,
          val |-> <<s[2] - 1>>] : s \in Slots(evs)},
     EventAccumulatorSchema |->
        UNION {{[key |-> <<v, pos>>, val |-> <<>>] :
                    pos \in 0..(2 * (Len(evs[v]) - 1))} : v \in DOMAIN evs},
     WriteSetSchema |->
        {[key |-> <<v>>, val |-> <<>>] : v \in DOMAIN evs}]

\* The version a row belongs to.
RowVersion(schema, r) ==
    CASE schema = "EventSchema" -> r.key[1]
      [] schema = "EventByKeySchema" -> r.val[1]
      [] schema = "EventByVersionSchema" -> r.key[2]
      [] schema = "EventAccumulatorSchema" -> r.key[1]
      [] schema = "WriteSetSchema" -> r.key[1]

\* ------------------------------------------------------------ the store
\* SchemaBatch: a set of delete operations (deletes commute, and the key set
\* of the event pruner is iterated in no fixed order).
delete_range(schema, begin, end) ==
    [schema |-> schema, kind |-> "delete_range", begin |-> begin, end |-> end]

delete(schema, key) ==
    [schema |-> schema, kind |-> "delete", begin |-> key, end |-> key]

\* Whether operation op removes the row with this key: a range is half-open.
Removes(op, key) ==
    IF op.kind = "delete" THEN key = op.begin
    ELSE TupleLeq(op.begin, key) /\ TupleLess(key, op.end)

\* DB::write_schemas: the whole batch is applied, atomically.
write_schemas(d, db_batch) ==
    [s \in DOMAIN d |->
        {r \in d[s] : ~\E op \in db_batch : op.schema = s /\ Removes(op, r.key)}]

\* EventStore::get_events_by_version_iter(start_version, num_versions),
\* flattened: the events of versions [start, start + num_versions) in version
\* order and, within a version, in index order.
get_events_by_version_iter(d, start_version, num_versions) ==
    LET rows == RowsInOrder({r \in d["EventSchema"] :
                                /\ start_version <= r.key[1]
                                /\ r.key[1] < start_version + num_versions})
    IN [i \in 1..Len(rows) |->
            [key |-> rows[i].val[1], sequence_number |-> rows[i].val[2]]]

\* EventStore::prune_events_by_version(event_keys, begin, end, db_batch)
prune_events_by_version(event_keys, begin, end) ==
    {delete_range("EventByVersionSchema", <<k, begin, 0>>, <<k, end, 0>>) :
        k \in event_keys}

\* EventStore::prune_events_by_key(sequence_range_by_event_keys, db_batch):
\* the entries of each key with a sequence number in [min, max], both included.
prune_events_by_key(sequence_range_by_event_keys) ==
    UNION {{delete_range("EventByKeySchema",
                         <<k, sequence_range_by_event_keys[k][1]>>,
                         <<k, sequence_range_by_event_keys[k][2]>>),
            delete("EventByKeySchema", <<k, sequence_range_by_event_keys[k][2]>>)} :
           k \in DOMAIN sequence_range_by_event_keys}

\* EventStore::prune_event_accumulator(begin, end, db_batch)
prune_event_accumulator(begin, end) ==
    {delete_range("EventAccumulatorSchema", <<begin, 0>>, <<end, 0>>)}

\* EventStore::prune_event_schema(begin, end, db_batch)
prune_event_schema(begin, end) ==
    {delete_range("EventSchema", <<begin, 0>>, <<end, 0>>)}

\* TransactionStore::prune_write_set(begin, end, db_batch)
prune_write_set(begin, end) ==
    {delete_range("WriteSetSchema", <<begin>>, <<end>>)}

\* DBPruner::get_currrent_batch_target (default method of the trait):
\* min(LeastReadableVersion + max_versions, TargetVersion), the sum as the
\* specification writes it.
get_currrent_batch_target(lrv, target, max_versions) ==
    Min(lrv + max_versions, target)

\* ------------------------------------------------------------ the pruners
\* `x as i64` of a u64.
as_i64(x) == IF x < U64Modulus \div 2 THEN x ELSE x - U64Modulus

\* `end - start` of two u64 in a build without overflow checks.
wrapping_sub(end, start) == (end - start) % U64Modulus

\* GaugeVec::with_label_values(&[label]).set(value)
gauge_set(g, label, value) ==
    [l \in DOMAIN g \cup {label} |-> IF l = label THEN value ELSE g[l]]

\* Mutant: the scan takes one version too many (end included).
get_pruning_candidate_events_inclusive(d, start, end) ==
    get_events_by_version_iter(d, start, wrapping_sub(end, start) + 1)

\* Mutant: the scan starts at end instead of start.
get_pruning_candidate_events_from_end(d, start, end) ==
    get_events_by_version_iter(d, end, wrapping_sub(end, start))

\* EventStorePruner::get_pruning_candidate_events(start, end): the iterator is
\* asked for (end - start) versions from start.  For end < start the count has
\* wrapped around and exceeds every version range, so the scan runs from start
\* to the end of the log (a build with overflow checks panics before; see
\* EventStorePruner_prune).
get_pruning_candidate_events(d, start, end) ==
    get_events_by_version_iter(d, start, wrapping_sub(end, start))

\* Mutant: only the key of the first candidate event is collected.
event_keys_of_first(candidate_events) ==
    IF candidate_events = <<>> THEN {} ELSE {candidate_events[1].key}

\* prune: event_keys, the keys of the candidate events
event_keys_of(candidate_events) ==
    {candidate_events[i].key : i \in DOMAIN candidate_events}

\* Mutant: a key seen again keeps its entry as it is (the insert of line 59 is
\* missing).
RECURSIVE sequence_range_fold_first_only(_, _)
sequence_range_fold_first_only(candidate_events, n) ==
    IF n = 0 THEN <<>>
    ELSE LET m == sequence_range_fold_first_only(candidate_events, n - 1)
             event == candidate_events[n]
         IN IF event.key \in DOMAIN m
            THEN m
            ELSE [k \in DOMAIN m \cup {event.key} |->
                    IF k = event.key
                    THEN <<event.sequence_number, event.sequence_number>> ELSE m[k]]

\* Mutant: a key seen again has its whole entry replaced by the event's number
\* (line 59 written like line 63).
RECURSIVE sequence_range_fold_last_only(_, _)
sequence_range_fold_last_only(candidate_events, n) ==
    IF n = 0 THEN <<>>
    ELSE LET m == sequence_range_fold_last_only(candidate_events, n - 1)
             event == candidate_events[n]
         IN [k \in DOMAIN m \cup {event.key} |->
                IF k = event.key
                THEN <<event.sequence_number, event.sequence_number>> ELSE m[k]]

\* prune: sequence_range_by_event_keys after the first n candidate events;
\* a key seen again keeps its first entry and takes the event's number as last.
RECURSIVE sequence_range_fold(_, _)
sequence_range_fold(candidate_events, n) ==
    IF n = 0 THEN <<>>
    ELSE LET m == sequence_range_fold(candidate_events, n - 1)
             event == candidate_events[n]
         IN IF event.key \in DOMAIN m
            THEN [k \in DOMAIN m |->
                    IF k = event.key
                    THEN <<m[k][1], event.sequence_number>> ELSE m[k]]
            ELSE [k \in DOMAIN m \cup {event.key} |->
                    IF k = event.key
                    THEN <<event.sequence_number, event.sequence_number>> ELSE m[k]]

sequence_range_by_event_keys(candidate_events) ==
    sequence_range_fold(candidate_events, Len(candidate_events))

\* EventStorePruner::prune: the batch it builds for the low-water mark lrv
\* (read again for every routine) and the batch target.
EventStorePruner_db_batch(d, lrv, current_target_version) ==
    LET candidate_events ==
            get_pruning_candidate_events(d, lrv, current_target_version)
    IN  prune_events_by_version(event_keys_of(candidate_events),
                                lrv, current_target_version)
        \cup prune_events_by_key(sequence_range_by_event_keys(candidate_events))
        \cup prune_event_accumulator(lrv, current_target_version)
        \cup prune_event_schema(lrv, current_target_version)

\* WriteSetPruner::prune: the batch it builds.
WriteSetPruner_db_batch(lrv, current_target_version) ==
    prune_write_set(lrv, current_target_version)

\* Mutant: the iterator is positioned on the last entry (seek_to_last).
WriteSetPruner_initialize_from_last(d) ==
    IF d["WriteSetSchema"] = {} THEN 0
    ELSE (CHOOSE r \in d["WriteSetSchema"] :
             \A q \in d["WriteSetSchema"] : TupleLeq(q.key, r.key)).key[1]

\* initialize_least_readable_version: the version in the first key of the
\* schema, 0 when the schema is empty.
EventStorePruner_initialize_least_readable_version(d) ==
    IF d["EventSchema"] = {} THEN 0 ELSE FirstRow(d["EventSchema"]).key[1]

WriteSetPruner_initialize_least_readable_version(d) ==
    IF d["WriteSetSchema"] = {} THEN 0 ELSE FirstRow(d["WriteSetSchema"]).key[1]

\* The steps of a prune call that can return an error.
EventStorePruner_fallible ==
    {"get_events_by_version_iter", "prune_events_by_version", "prune_events_by_key",
     "prune_event_accumulator", "prune_event_schema", "write_schemas"}

WriteSetPruner_fallible == {"prune_write_set", "write_schemas"}

\* The schema initialize_least_readable_version reads.
PrimarySchema ==
    IF pruner = EVENT_STORE_PRUNER_NAME THEN "EventSchema" ELSE "WriteSetSchema"

\* ------------------------------------------------------------ threads
\* The threads that call the pruner: thread 1 is the driver.
Threads == {1, 2}

\* The local state of a call, none in flight.  pc names what the call executes
\* next; the other fields are the parameter max_versions (kept until the
\* batch target is computed, its only use), the locals of prune, entry, the
\* value of least_readable_version() loaded for the batch target (kept until
\* the mark is loaded again for the scan), start, the value the candidate
\* scan was given, the parameter
\* least_readable_version of record_progress, and as history committed,
\* whether write_schemas has succeeded, and outside, whether record_progress
\* has been called on the instance from outside prune during the call.
NoCall ==
    [pc |-> "idle", max_versions |-> 0, entry |-> 0,
     current_target_version |-> 0, start |-> 0,
     candidate_events |-> <<>>, sequence_range_by_event_keys |-> <<>>,
     db_batch |-> {}, committed |-> FALSE, outside |-> FALSE,
     least_readable_version |-> 0]

\* The call c is a prune call in flight (a call of record_progress from
\* outside prune stands before its gauge write with nothing committed).
InPrune(c) == c.pc # "idle" /\ (c.pc = "gauge_set" => c.committed)

\* The prune call of the driver.
call == calls[1]

\* The reader before its first read.
NoRead == [pc |-> "idle", v |-> 0, version |-> 0, found |-> FALSE]

\* ------------------------------------------------------------ history
Snapshot ==
    [db |-> db, least_readable_version |-> least_readable_version,
     target_version |-> target_version, gauge |-> gauge]

Call(op, arg, fail, outcome, value) ==
    [op |-> op, arg |-> arg, fail |-> fail, outcome |-> outcome,
     value |-> value, pre |-> Snapshot]

\* The record of a call that only stores a value into a field of the pruner
\* (new, set_target_version, record_progress): the state before it is not
\* kept.
NoSnapshot ==
    [db |-> <<>>, least_readable_version |-> 0, target_version |-> 0,
     gauge |-> <<>>]

Stored(op, arg) ==
    [op |-> op, arg |-> arg, fail |-> "none", outcome |-> "Ok", value |-> 0,
     pre |-> NoSnapshot]

\* ------------------------------------------------------------ Init
Init ==
    /\ pruner \in PrunerNames
    /\ overflow_checks \in BOOLEAN
    /\ \E evs \in [LedgerVersions -> EventLists] :
          /\ ledger = LedgerOf(evs)
          /\ db = LedgerOf(evs)
          /\ last = [op |-> "new", arg |-> 0, fail |-> "none", outcome |-> "Ok",
                     value |-> 0,
                     pre |-> [db |-> LedgerOf(evs), least_readable_version |-> 0,
                              target_version |-> 0, gauge |-> <<>>]]
    /\ target_version = 0
    /\ least_readable_version = 0
    /\ gauge = <<>>
    /\ calls = [t \in Threads |-> NoCall]
    /\ reader = NoRead

\* ------------------------------------------------------------ actions
\* EventStorePruner::new / WriteSetPruner::new over the store as it is (a
\* restart): both fields start at 0.
EventStorePruner_new ==
    /\ pruner = EVENT_STORE_PRUNER_NAME
    /\ target_version' = 0
    /\ least_readable_version' = 0
    /\ last' = Stored("new", 0)
    /\ UNCHANGED <<calls, reader, pruner, overflow_checks, db, gauge, ledger>>

WriteSetPruner_new ==
    /\ pruner = TRANSACTION_STORE_PRUNER_NAME
    /\ target_version' = 0
    /\ least_readable_version' = 0
    /\ last' = Stored("new", 0)
    /\ UNCHANGED <<calls, reader, pruner, overflow_checks, db, gauge, ledger>>

\* set_target_version(target_version): an unconditional store.
set_target_version(v) ==
    /\ target_version' = v
    /\ last' = Stored("set_target_version", v)
    /\ UNCHANGED <<calls, reader, pruner, overflow_checks, db, least_readable_version, gauge,
                   ledger>>

\* Mutant: the target, not the batch target, is published.
WriteSetPruner_record_target(v) ==
    /\ least_readable_version' = target_version
    /\ gauge' = gauge_set(gauge, "write_set", as_i64(target_version))

\* record_progress(least_readable_version)
EventStorePruner_record_progress(v) ==
    /\ least_readable_version' = v
    /\ gauge' = gauge_set(gauge, "event_store", as_i64(v))

WriteSetPruner_record_progress(v) ==
    /\ least_readable_version' = v
    /\ gauge' = gauge_set(gauge, "write_set", as_i64(v))

\* record_progress(least_readable_version) called on the instance, not by
\* prune: a method of impl DBPruner like prune and set_target_version, it
\* stores the value it is given and sets the gauge.  prune is its only caller
\* in the source, after the commit.
record_progress(v) ==
    /\ IF pruner = EVENT_STORE_PRUNER_NAME
       THEN EventStorePruner_record_progress(v)
       ELSE WriteSetPruner_record_progress(v)
    /\ last' = Stored("record_progress", v)
    /\ UNCHANGED <<calls, reader, pruner, overflow_checks, db, target_version, ledger>>

\* Mutant: progress is recorded before the step that fails.
Aborted_after_progress(max_versions, fail, outcome) ==
    /\ last' = Call("prune", max_versions, fail, outcome, 0)
    /\ least_readable_version' =
          get_currrent_batch_target(least_readable_version, target_version,
                                    max_versions)
    /\ UNCHANGED <<calls, reader, pruner, overflow_checks, db, target_version, gauge, ledger>>

\* A prune call that returns an error, or panics: nothing was committed.
Aborted(max_versions, fail, outcome) ==
    /\ last' = Call("prune", max_versions, fail, outcome, 0)
    /\ UNCHANGED <<calls, reader, pruner, overflow_checks, db, target_version,
                   least_readable_version, gauge, ledger>>

\* EventStorePruner::prune(max_versions); fail names the step that returns an
\* error, "none" when the store does not fail.
EventStorePruner_prune(max_versions, fail) ==
    /\ pruner = EVENT_STORE_PRUNER_NAME
    /\ LET current_target_version ==
               get_currrent_batch_target(least_readable_version, target_version,
                                         max_versions)
       IN  IF current_target_version < least_readable_version /\ overflow_checks
           THEN \* `end - start` overflows: the call panics
                Aborted(max_versions, "none", "panic")
           ELSE IF fail # "none"
           THEN Aborted(max_versions, fail, "Err")
           ELSE /\ db' = write_schemas(db,
                            EventStorePruner_db_batch(db, least_readable_version,
                                                      current_target_version))
                /\ EventStorePruner_record_progress(current_target_version)
                /\ last' = Call("prune", max_versions, "none", "Ok",
                                current_target_version)
                /\ UNCHANGED <<calls, reader, pruner, overflow_checks, target_version, ledger>>

\* WriteSetPruner::prune(max_versions)
WriteSetPruner_prune(max_versions, fail) ==
    /\ pruner = TRANSACTION_STORE_PRUNER_NAME
    /\ LET current_target_version ==
               get_currrent_batch_target(least_readable_version, target_version,
                                         max_versions)
       IN  IF fail # "none"
           THEN Aborted(max_versions, fail, "Err")
           ELSE /\ db' = write_schemas(db,
                            WriteSetPruner_db_batch(least_readable_version,
                                                    current_target_version))
                /\ WriteSetPruner_record_progress(current_target_version)
                /\ last' = Call("prune", max_versions, "none", "Ok",
                                current_target_version)
                /\ UNCHANGED <<calls, reader, pruner, overflow_checks, target_version, ledger>>

\* initialize_least_readable_version(): reads the store; iter_fails when the
\* iterator returns an error.
initialize_least_readable_version(iter_fails) ==
    /\ last' =
         IF iter_fails
         THEN Call("initialize_least_readable_version", 0, "iter", "Err", 0)
         ELSE Call("initialize_least_readable_version", 0, "none", "Ok",
                   IF pruner = EVENT_STORE_PRUNER_NAME
                   THEN EventStorePruner_initialize_least_readable_version(db)
                   ELSE WriteSetPruner_initialize_least_readable_version(db))
    /\ UNCHANGED <<calls, reader, pruner, overflow_checks, db, target_version,
                   least_readable_version, gauge, ledger>>

\* ------------------------------------------------------------ prune, step by step
\* The same two prune methods, one action per routine they call or write
\* they make, for what other threads see and do while a call is in flight.
\* Thread t runs the call; calls[t] holds its locals.  The history record
\* last is left to the whole-call actions above.
instance_vars ==
    <<pruner, overflow_checks, db, target_version, least_readable_version,
      gauge, ledger, last>>

\* prune, lines 37-38: the call is entered, the batch created, and
\* get_currrent_batch_target loads least_readable_version(), the first of its
\* two loads.
EventStorePruner_prune_get_currrent_batch_target(t, max_versions) ==
    /\ pruner = EVENT_STORE_PRUNER_NAME
    /\ calls[t].pc = "idle"
    /\ calls' =
         [calls EXCEPT
            ![t] = [NoCall EXCEPT
                      !.pc = "target_version",
                      !.max_versions = max_versions,
                      !.entry = least_readable_version]]
    /\ UNCHANGED <<reader, instance_vars>>

\* prune, line 38: get_currrent_batch_target loads target_version() and
\* returns the minimum, which prune keeps as current_target_version.
EventStorePruner_prune_target_version(t) ==
    /\ pruner = EVENT_STORE_PRUNER_NAME
    /\ calls[t].pc = "target_version"
    /\ calls' =
         [calls EXCEPT
            ![t].pc = "get_pruning_candidate_events",
            ![t].max_versions = 0,
            ![t].current_target_version =
                get_currrent_batch_target(calls[t].entry, target_version,
                                          calls[t].max_versions)]
    /\ UNCHANGED <<reader, instance_vars>>

\* prune, line 40, and get_pruning_candidate_events, line 133:
\* least_readable_version() is loaded as the start of the candidate scan and
\* the number of versions computed; the subtraction panics in a build with
\* overflow checks.
EventStorePruner_prune_get_pruning_candidate_events(t) ==
    /\ pruner = EVENT_STORE_PRUNER_NAME
    /\ calls[t].pc = "get_pruning_candidate_events"
    /\ calls' =
         [calls EXCEPT
            ![t] = IF calls[t].current_target_version < least_readable_version
                      /\ overflow_checks
                   THEN NoCall
                   ELSE [calls[t] EXCEPT
                           !.pc = "get_events_by_version_iter",
                           !.entry = 0,
                           !.start = least_readable_version]]
    /\ UNCHANGED <<reader, instance_vars>>

\* get_pruning_candidate_events, lines 132-135: the store is read from the
\* start loaded before.
EventStorePruner_prune_get_events_by_version_iter(t) ==
    /\ pruner = EVENT_STORE_PRUNER_NAME
    /\ calls[t].pc = "get_events_by_version_iter"
    /\ calls' =
         [calls EXCEPT
            ![t].pc = "prune_events_by_version",
            ![t].candidate_events =
                get_pruning_candidate_events(
                    db, calls[t].start, calls[t].current_target_version)]
    /\ UNCHANGED <<reader, instance_vars>>

\* prune, lines 42-50
EventStorePruner_prune_events_by_version(t) ==
    /\ pruner = EVENT_STORE_PRUNER_NAME
    /\ calls[t].pc = "prune_events_by_version"
    /\ calls' =
         [calls EXCEPT
            ![t].pc = "prune_events_by_key",
            ![t].db_batch =
                @ \cup prune_events_by_version(
                           event_keys_of(calls[t].candidate_events),
                           least_readable_version,
                           calls[t].current_target_version)]
    /\ UNCHANGED <<reader, instance_vars>>

\* prune, lines 52-69
EventStorePruner_prune_events_by_key(t) ==
    /\ pruner = EVENT_STORE_PRUNER_NAME
    /\ calls[t].pc = "prune_events_by_key"
    /\ calls' =
         [calls EXCEPT
            ![t].pc = "prune_event_accumulator",
            ![t].sequence_range_by_event_keys =
                sequence_range_by_event_keys(calls[t].candidate_events),
            ![t].db_batch =
                @ \cup prune_events_by_key(
                           sequence_range_by_event_keys(
                               calls[t].candidate_events))]
    /\ UNCHANGED <<reader, instance_vars>>

\* prune, lines 71-75
EventStorePruner_prune_event_accumulator(t) ==
    /\ pruner = EVENT_STORE_PRUNER_NAME
    /\ calls[t].pc = "prune_event_accumulator"
    /\ calls' =
         [calls EXCEPT
            ![t].pc = "prune_event_schema",
            ![t].db_batch =
                @ \cup prune_event_accumulator(
                           least_readable_version,
                           calls[t].current_target_version)]
    /\ UNCHANGED <<reader, instance_vars>>

\* Mutant: the last range deletion ends at the target, not at the batch target
\* computed at entry.
EventStorePruner_prune_event_schema_new_target(t) ==
    /\ pruner = EVENT_STORE_PRUNER_NAME
    /\ calls[t].pc = "prune_event_schema"
    /\ calls' =
         [calls EXCEPT
            ![t].pc = "write_schemas",
            ![t].db_batch =
                @ \cup prune_event_schema(least_readable_version,
                                          target_version)]
    /\ UNCHANGED <<reader, instance_vars>>

\* prune, lines 77-81
EventStorePruner_prune_event_schema(t) ==
    /\ pruner = EVENT_STORE_PRUNER_NAME
    /\ calls[t].pc = "prune_event_schema"
    /\ calls' =
         [calls EXCEPT
            ![t].pc = "write_schemas",
            ![t].db_batch =
                @ \cup prune_event_schema(least_readable_version,
                                          calls[t].current_target_version)]
    /\ UNCHANGED <<reader, instance_vars>>

\* Mutant: the result of write_schemas is dropped, the call goes on after a
\* failed commit.
EventStorePruner_prune_write_schemas_unchecked(t, fails) ==
    /\ pruner = EVENT_STORE_PRUNER_NAME
    /\ calls[t].pc = "write_schemas"
    /\ db' = IF fails THEN db ELSE write_schemas(db, calls[t].db_batch)
    /\ calls' = [calls EXCEPT ![t].pc = "record_progress",
                              ![t].committed = ~fails]
    /\ UNCHANGED <<reader, pruner, overflow_checks, target_version,
                   least_readable_version, gauge, ledger, last>>

\* prune, line 83: the commit; an error ends the call.
EventStorePruner_prune_write_schemas(t, fails) ==
    /\ pruner = EVENT_STORE_PRUNER_NAME
    /\ calls[t].pc = "write_schemas"
    /\ db' = IF fails THEN db ELSE write_schemas(db, calls[t].db_batch)
    /\ calls' =
         [calls EXCEPT
            ![t] = IF fails
                   THEN NoCall
                   ELSE [calls[t] EXCEPT !.pc = "record_progress",
                                         !.committed = TRUE]]
    /\ UNCHANGED <<reader, pruner, overflow_checks, target_version,
                   least_readable_version, gauge, ledger, last>>

\* prune, line 85, and record_progress, lines 109-110: the first write of
\* record_progress, the store of the low-water mark.
EventStorePruner_prune_record_progress(t) ==
    /\ pruner = EVENT_STORE_PRUNER_NAME
    /\ calls[t].pc = "record_progress"
    /\ least_readable_version' = calls[t].current_target_version
    /\ calls' =
         [calls EXCEPT
            ![t].pc = "gauge_set",
            ![t].least_readable_version = calls[t].current_target_version]
    /\ UNCHANGED <<reader, pruner, overflow_checks, db, target_version, gauge,
                   ledger, last>>

\* record_progress, lines 111-113: the second write, the gauge; the call
\* returns (prune at line 86).
EventStorePruner_record_progress_set(t) ==
    /\ pruner = EVENT_STORE_PRUNER_NAME
    /\ calls[t].pc = "gauge_set"
    /\ gauge' = gauge_set(gauge, "event_store",
                          as_i64(calls[t].least_readable_version))
    /\ calls' = [calls EXCEPT ![t] = NoCall]
    /\ UNCHANGED <<reader, pruner, overflow_checks, db, target_version,
                   least_readable_version, ledger, last>>

\* prune: a routine before the commit returns an error (the `?` of lines 40,
\* 50, 69, 75, 81); the call returns.
EventStorePruner_prune_err(t) ==
    /\ pruner = EVENT_STORE_PRUNER_NAME
    /\ calls[t].pc \in EventStorePruner_fallible \ {"write_schemas"}
    /\ calls' = [calls EXCEPT ![t] = NoCall]
    /\ UNCHANGED <<reader, instance_vars>>

\* WriteSetPruner::prune, lines 28-29: the call is entered, the batch created,
\* and get_currrent_batch_target loads least_readable_version().
WriteSetPruner_prune_get_currrent_batch_target(t, max_versions) ==
    /\ pruner = TRANSACTION_STORE_PRUNER_NAME
    /\ calls[t].pc = "idle"
    /\ calls' =
         [calls EXCEPT
            ![t] = [NoCall EXCEPT
                      !.pc = "target_version",
                      !.max_versions = max_versions,
                      !.entry = least_readable_version]]
    /\ UNCHANGED <<reader, instance_vars>>

\* WriteSetPruner::prune, line 29: get_currrent_batch_target loads
\* target_version() and returns the minimum.
WriteSetPruner_prune_target_version(t) ==
    /\ pruner = TRANSACTION_STORE_PRUNER_NAME
    /\ calls[t].pc = "target_version"
    /\ calls' =
         [calls EXCEPT
            ![t].pc = "prune_write_set",
            ![t].max_versions = 0,
            ![t].current_target_version =
                get_currrent_batch_target(calls[t].entry, target_version,
                                          calls[t].max_versions)]
    /\ UNCHANGED <<reader, instance_vars>>

\* WriteSetPruner::prune, lines 31-35
WriteSetPruner_prune_write_set(t) ==
    /\ pruner = TRANSACTION_STORE_PRUNER_NAME
    /\ calls[t].pc = "prune_write_set"
    /\ calls' =
         [calls EXCEPT
            ![t].pc = "write_schemas",
            ![t].entry = 0,
            ![t].db_batch =
                @ \cup WriteSetPruner_db_batch(
                           least_readable_version,
                           calls[t].current_target_version)]
    /\ UNCHANGED <<reader, instance_vars>>

\* WriteSetPruner::prune, line 36
WriteSetPruner_prune_write_schemas(t, fails) ==
    /\ pruner = TRANSACTION_STORE_PRUNER_NAME
    /\ calls[t].pc = "write_schemas"
    /\ db' = IF fails THEN db ELSE write_schemas(db, calls[t].db_batch)
    /\ calls' =
         [calls EXCEPT
            ![t] = IF fails
                   THEN NoCall
                   ELSE [calls[t] EXCEPT !.pc = "record_progress",
                                         !.committed = TRUE]]
    /\ UNCHANGED <<reader, pruner, overflow_checks, target_version,
                   least_readable_version, gauge, ledger, last>>

\* WriteSetPruner::prune, line 38, and record_progress, lines 61-62: the
\* store of the low-water mark.
WriteSetPruner_prune_record_progress(t) ==
    /\ pruner = TRANSACTION_STORE_PRUNER_NAME
    /\ calls[t].pc = "record_progress"
    /\ least_readable_version' = calls[t].current_target_version
    /\ calls' =
         [calls EXCEPT
            ![t].pc = "gauge_set",
            ![t].least_readable_version = calls[t].current_target_version]
    /\ UNCHANGED <<reader, pruner, overflow_checks, db, target_version, gauge,
                   ledger, last>>

\* record_progress, lines 63-65: the gauge; the call returns (prune at line
\* 39).
WriteSetPruner_record_progress_set(t) ==
    /\ pruner = TRANSACTION_STORE_PRUNER_NAME
    /\ calls[t].pc = "gauge_set"
    /\ gauge' = gauge_set(gauge, "write_set",
                          as_i64(calls[t].least_readable_version))
    /\ calls' = [calls EXCEPT ![t] = NoCall]
    /\ UNCHANGED <<reader, pruner, overflow_checks, db, target_version,
                   least_readable_version, ledger, last>>

\* WriteSetPruner::prune: prune_write_set returns an error (the `?` of line 35)
WriteSetPruner_prune_err(t) ==
    /\ pruner = TRANSACTION_STORE_PRUNER_NAME
    /\ calls[t].pc = "prune_write_set"
    /\ calls' = [calls EXCEPT ![t] = NoCall]
    /\ UNCHANGED <<reader, instance_vars>>

\* set_target_version called by a thread that runs no prune call: the store of
\* line 101 (the history record last is left to the whole-call actions).
set_target_version_store(v) ==
    /\ target_version' = v
    /\ UNCHANGED <<calls, reader, pruner, overflow_checks, db,
                   least_readable_version, gauge, ledger, last>>

\* record_progress(v) called on the instance by thread t, which runs no prune
\* call: the store of lines 109-110 (write set: 61-62); the gauge is set by
\* the next step of the thread.
record_progress_store(t, v) ==
    /\ calls[t].pc = "idle"
    /\ least_readable_version' = v
    /\ calls' = [u \in Threads |->
                   IF u = t
                   THEN [NoCall EXCEPT !.pc = "gauge_set",
                                       !.least_readable_version = v]
                   ELSE IF InPrune(calls[u])
                   THEN [calls[u] EXCEPT !.outside = TRUE]
                   ELSE calls[u]]
    /\ UNCHANGED <<reader, pruner, overflow_checks, db, target_version, gauge,
                   ledger, last>>

\* A reader calls least_readable_version() and picks a record that the ledger
\* has written to the primary schema, of a version at or above the value it got.
reader_least_readable_version(version) ==
    /\ reader.pc = "idle"
    /\ version >= least_readable_version
    /\ \E r \in ledger[PrimarySchema] : RowVersion(PrimarySchema, r) = version
    /\ reader' = [pc |-> "read", v |-> least_readable_version,
                  version |-> version, found |-> FALSE]
    /\ UNCHANGED <<calls, instance_vars>>

\* The reader reads the record it picked.
reader_get ==
    /\ reader.pc = "read"
    /\ reader' = [reader EXCEPT
                    !.pc = "done",
                    !.found = \E r \in db[PrimarySchema] :
                                 RowVersion(PrimarySchema, r) = reader.version]
    /\ UNCHANGED <<calls, instance_vars>>

\* One step of the prune call of thread t: every load and store of the two
\* fields of the pruner and every read and write of the store is a step of
\* its own.
EventStorePruner_prune_step(t) ==
    \/ \E m \in Steps : EventStorePruner_prune_get_currrent_batch_target(t, m)
    \/ EventStorePruner_prune_target_version(t)
    \/ EventStorePruner_prune_get_pruning_candidate_events(t)
    \/ EventStorePruner_prune_get_events_by_version_iter(t)
    \/ EventStorePruner_prune_events_by_version(t)
    \/ EventStorePruner_prune_events_by_key(t)
    \/ EventStorePruner_prune_event_accumulator(t)
    \/ EventStorePruner_prune_event_schema(t)
    \/ \E b \in BOOLEAN : EventStorePruner_prune_write_schemas(t, b)
    \/ EventStorePruner_prune_record_progress(t)
    \/ EventStorePruner_record_progress_set(t)
    \/ EventStorePruner_prune_err(t)

WriteSetPruner_prune_step(t) ==
    \/ \E m \in Steps : WriteSetPruner_prune_get_currrent_batch_target(t, m)
    \/ WriteSetPruner_prune_target_version(t)
    \/ WriteSetPruner_prune_write_set(t)
    \/ \E b \in BOOLEAN : WriteSetPruner_prune_write_schemas(t, b)
    \/ WriteSetPruner_prune_record_progress(t)
    \/ WriteSetPruner_record_progress_set(t)
    \/ WriteSetPruner_prune_err(t)

\* The step-by-step specifications start from the ledger of the specification's
\* scenario: every version emits one event, all events share one key.
InitConcurrent == Init /\ ledger = LedgerOf([v \in LedgerVersions |-> <<1>>])

\* The interleavings of a reader with the prune calls of the driver, one call
\* at a time, and the driver's set_target_version.
Concurrent ==
    \/ EventStorePruner_prune_step(1)
    \/ WriteSetPruner_prune_step(1)
    \/ \E v \in Versions : set_target_version_store(v)
    \/ \E w \in LedgerVersions : reader_least_readable_version(w)
    \/ reader_get

SpecConcurrent == InitConcurrent /\ [][Concurrent]_vars

\* The operations of one pruner instance step by step: the driver calls
\* prune, one call at a time, the target is set, and record_progress is called
\* on the instance by the driver or by a second thread (which then makes the
\* second write of its call).
Operations ==
    \/ EventStorePruner_prune_step(1)
    \/ WriteSetPruner_prune_step(1)
    \/ \E v \in Versions : set_target_version_store(v)
    \/ \E t \in Threads, v \in Versions : record_progress_store(t, v)
    \/ EventStorePruner_record_progress_set(2)
    \/ WriteSetPruner_record_progress_set(2)

SpecOperations == InitConcurrent /\ [][Operations]_vars

\* Two threads call prune on the same instance, each call step by step, while
\* the driver sets the target.
TwoCalls ==
    \/ \E t \in Threads : EventStorePruner_prune_step(t)
    \/ \E t \in Threads : WriteSetPruner_prune_step(t)
    \/ \E v \in Versions : set_target_version_store(v)

SpecTwoCalls == InitConcurrent /\ [][TwoCalls]_vars

\* The per-key fold of lines 52-69 on its own: the call stands before it with
\* a candidate list of any content and order (the keys 1 and 2, sequence
\* numbers below MaxCandidates).
CandidateEvents ==
    [key : {1, 2}, sequence_number : 0..(MaxCandidates - 1)]

CandidateLists ==
    UNION {[1..n -> CandidateEvents] : n \in 0..MaxCandidates}

InitSequenceRange ==
    /\ pruner = EVENT_STORE_PRUNER_NAME
    /\ overflow_checks \in BOOLEAN
    /\ ledger = LedgerOf([v \in LedgerVersions |-> <<>>])
    /\ db = ledger
    /\ last = [op |-> "new", arg |-> 0, fail |-> "none", outcome |-> "Ok",
               value |-> 0,
               pre |-> [db |-> db, least_readable_version |-> 0,
                        target_version |-> 0, gauge |-> <<>>]]
    /\ target_version = 0
    /\ least_readable_version = 0
    /\ gauge = <<>>
    /\ \E l \in CandidateLists :
          calls = [t \in Threads |->
                     IF t = 1
                     THEN [NoCall EXCEPT !.pc = "prune_events_by_key",
                                         !.candidate_events = l]
                     ELSE NoCall]
    /\ reader = NoRead

SpecSequenceRange ==
    InitSequenceRange /\ [][EventStorePruner_prune_events_by_key(1)]_vars

\* A pruner instance in the hands of its driver, which sets targets, calls
\* prune and runs the recovery scan.
Driver ==
    \/ \E v \in Versions : set_target_version(v)
    \/ \E m \in Steps, f \in EventStorePruner_fallible \cup {"none"} :
          EventStorePruner_prune(m, f)
    \/ \E m \in Steps, f \in WriteSetPruner_fallible \cup {"none"} :
          WriteSetPruner_prune(m, f)
    \/ \E b \in BOOLEAN : initialize_least_readable_version(b)

SpecDriver == Init /\ [][Driver]_vars

\* What can happen to a pruner instance: its construction and every method
\* of impl DBPruner that changes or scans state.
Next ==
    \/ EventStorePruner_new
    \/ WriteSetPruner_new
    \/ Driver
    \/ \E v \in Versions : record_progress(v)

\* The program: pruner instances, constructed again over the same store at
\* every restart.
Spec == Init /\ [][Next]_vars

\* A WriteSetPruner instance in the hands of its driver.
InitWriteSet == Init /\ pruner = TRANSACTION_STORE_PRUNER_NAME

WriteSetInstance ==
    \/ \E v \in Versions : set_target_version(v)
    \/ \E m \in Steps, f \in WriteSetPruner_fallible \cup {"none"} :
          WriteSetPruner_prune(m, f)
    \/ \E b \in BOOLEAN : initialize_least_readable_version(b)

SpecWriteSetInstance == InitWriteSet /\ [][WriteSetInstance]_vars

\* WriteSetPruner instances, constructed again over the same store at every
\* restart.
WriteSetProgram ==
    \/ WriteSetPruner_new
    \/ WriteSetInstance

SpecWriteSet == InitWriteSet /\ [][WriteSetProgram]_vars

\* ------------------------------------------------------------ properties
\* The schemas the pruner instance prunes.
PrunedSchemas ==
    IF pruner = EVENT_STORE_PRUNER_NAME
    THEN {"EventSchema", "EventByKeySchema", "EventByVersionSchema",
          "EventAccumulatorSchema"}
    ELSE {"WriteSetSchema"}

\* The schemas a batch [start, end) is removed from as a version range.
RangeSchemas ==
    IF pruner = EVENT_STORE_PRUNER_NAME
    THEN {"EventSchema", "EventByVersionSchema", "EventAccumulatorSchema"}
    ELSE {"WriteSetSchema"}

VersionsIn(d, schema) == {RowVersion(schema, r) : r \in d[schema]}

\* The lowest version existing in a schema, 0 when it is empty.
LowestVersion(d, schema) ==
    IF d[schema] = {} THEN 0
    ELSE CHOOSE v \in VersionsIn(d, schema) : \A w \in VersionsIn(d, schema) : v <= w

PruneOk == last.op = "prune" /\ last.outcome = "Ok"

\* C1 (readability of retained data): no record whose version is at or above
\* least_readable_version() has been deleted from a schema the pruner prunes.
C1_RetainedDataReadable ==
    \A s \in PrunedSchemas : \A r \in ledger[s] \ db[s] :
        RowVersion(s, r) < least_readable_version

\* C2 (monotonicity): no call on a pruner instance decreases
\* least_readable_version().
C2_Monotonic == [][least_readable_version' >= least_readable_version]_vars

\* C3 (bounded step, exact batch boundary): a successful prune(max_versions)
\* returns min(old low-water mark + max_versions, target) and publishes exactly
\* that value, so the step is at most max_versions and the mark never passes
\* the target.
C3_BoundedStep ==
    PruneOk =>
        /\ last.value = Min(last.pre.least_readable_version + last.arg,
                            last.pre.target_version)
        /\ least_readable_version = last.value
        /\ least_readable_version - last.pre.least_readable_version <= last.arg
        /\ least_readable_version <= target_version

\* The batch target was clamped by the target, not by the step.
C3_Witness ==
    /\ PruneOk
    /\ last.pre.least_readable_version < last.pre.target_version
    /\ last.pre.target_version < last.pre.least_readable_version + last.arg
    /\ least_readable_version = last.pre.target_version

\* C4 (atomicity under failure): a prune call in which any step returns an
\* error leaves the low-water mark, the gauge and the store as they were.
C4_AtomicFailure ==
    (last.op = "prune" /\ last.outcome = "Err") =>
        /\ least_readable_version = last.pre.least_readable_version
        /\ gauge = last.pre.gauge
        /\ db = last.pre.db

\* The commit of a batch with records to delete has failed.
C4_Witness ==
    /\ last.op = "prune"
    /\ last.outcome = "Err"
    /\ last.fail = "write_schemas"
    /\ \E r \in db[PrimarySchema] :
          /\ least_readable_version <= RowVersion(PrimarySchema, r)
          /\ RowVersion(PrimarySchema, r) < target_version

\* C5 (convergence): with the target fixed and the store not failing, prune
\* calls with a positive step bring least_readable_version() to the target in
\* finitely many calls: every such call away from the target ends strictly
\* closer to it, and every call at the target returns it and stays there.
C5_Convergence ==
    (last.op = "prune" /\ last.outcome # "Err" /\ last.arg > 0) =>
        IF last.pre.least_readable_version = last.pre.target_version
        THEN /\ last.outcome = "Ok"
             /\ last.value = target_version
             /\ least_readable_version = target_version
        ELSE Dist(least_readable_version, target_version)
                < Dist(last.pre.least_readable_version, last.pre.target_version)

\* C6 (idempotence at rest): with least_readable_version() = target_version(),
\* a successful prune returns that value and changes neither the low-water
\* mark nor the store.
C6_IdempotentAtRest ==
    (PruneOk /\ last.pre.least_readable_version = last.pre.target_version) =>
        /\ last.value = last.pre.least_readable_version
        /\ least_readable_version = last.pre.least_readable_version
        /\ db = last.pre.db

\* A prune at rest with a positive step over a store that still holds records
\* at the low-water mark.
C6_Witness ==
    /\ PruneOk
    /\ last.pre.least_readable_version = last.pre.target_version
    /\ last.arg > 0
    /\ \E r \in db[PrimarySchema] :
          RowVersion(PrimarySchema, r) = least_readable_version

\* C7 (progress invariant): 0 <= least_readable_version() <= target_version()
\* in every reachable state of a pruner instance.
C7_ProgressInvariant ==
    0 <= least_readable_version /\ least_readable_version <= target_version

\* C8 (exact range removal): a successful prune from low-water mark s to batch
\* target e removes from the primary log (and, for events, the accumulator and
\* the schema index) exactly the records with s <= version < e, and publishes e.
C8_ExactRange ==
    PruneOk =>
        /\ \A s \in RangeSchemas :
              db[s] = {r \in last.pre.db[s] :
                          ~(/\ last.pre.least_readable_version <= RowVersion(s, r)
                            /\ RowVersion(s, r) < last.value)}
        /\ least_readable_version = last.value

\* An event batch that removed records of two keys and left later ones.
C8_Witness ==
    /\ PruneOk
    /\ pruner = EVENT_STORE_PRUNER_NAME
    /\ \E r, q \in last.pre.db["EventByVersionSchema"] \ db["EventByVersionSchema"] :
          r.key[1] # q.key[1]
    /\ db["EventByVersionSchema"] # {}

\* C9 (recovery correctness): initialize_least_readable_version returns 0 for
\* an empty primary schema and the lowest version in it otherwise, changes
\* nothing, and returns an iteration error as an error.
C9_RecoveryCorrect ==
    last.op = "initialize_least_readable_version" =>
        /\ db = last.pre.db
        /\ least_readable_version = last.pre.least_readable_version
        /\ target_version = last.pre.target_version
        /\ gauge = last.pre.gauge
        /\ (last.fail = "iter") => (last.outcome = "Err")
        /\ (last.outcome = "Ok") => (last.value = LowestVersion(db, PrimarySchema))

\* The scan of a schema whose lowest version is above 0.
C9_Witness ==
    /\ last.op = "initialize_least_readable_version"
    /\ last.outcome = "Ok"
    /\ last.value > 0
    /\ db[PrimarySchema] # {}

\* C10 (bootstrap at construction): right after construction,
\* least_readable_version() is the lowest version existing in the primary
\* schema (0 only when the schema is empty).
C10_BootstrapAtConstruction ==
    last.op = "new" => least_readable_version = LowestVersion(db, PrimarySchema)

\* The events of the store d with a version in [start, end).
EventsIn(d, start, end) ==
    {e \in d["EventSchema"] : start <= e.key[1] /\ e.key[1] < end}

\* No event of the log of the store d lies below the version v: v is a
\* low-water mark of d.
LowWaterMark(d, v) == \A r \in d["EventSchema"] : r.key[1] >= v

C11_MarkOfPrune ==
    pruner = EVENT_STORE_PRUNER_NAME =>
        LowWaterMark(db, least_readable_version)

C12_ConcurrentReadSafe == reader.pc = "done" => reader.found

\* The sequence numbers of the candidate events of key k.
SeqsOf(candidate_events, k) ==
    {candidate_events[i].sequence_number :
        i \in {j \in DOMAIN candidate_events : candidate_events[j].key = k}}

MinOf(S) == CHOOSE x \in S : \A y \in S : x <= y

MaxOf(S) == CHOOSE x \in S : \A y \in S : x >= y

\* The pairs passed to prune_events_by_key are the true minimum and maximum.
TrueSequenceRange(c) ==
    /\ DOMAIN c.sequence_range_by_event_keys = event_keys_of(c.candidate_events)
    /\ \A k \in DOMAIN c.sequence_range_by_event_keys :
          c.sequence_range_by_event_keys[k] =
              <<MinOf(SeqsOf(c.candidate_events, k)),
                MaxOf(SeqsOf(c.candidate_events, k))>>

\* The pairs passed to prune_events_by_key are the sequence numbers of the
\* first and of the last candidate event of the key.
FirstLastSeen(c) ==
    /\ DOMAIN c.sequence_range_by_event_keys = event_keys_of(c.candidate_events)
    /\ \A k \in DOMAIN c.sequence_range_by_event_keys :
          LET at == {i \in DOMAIN c.candidate_events :
                        c.candidate_events[i].key = k}
          IN  c.sequence_range_by_event_keys[k] =
                  <<c.candidate_events[MinOf(at)].sequence_number,
                    c.candidate_events[MaxOf(at)].sequence_number>>

\* Every key's events appear in non-decreasing sequence order.
SequenceOrdered(candidate_events) ==
    \A i, j \in DOMAIN candidate_events :
        (i < j /\ candidate_events[i].key = candidate_events[j].key) =>
            candidate_events[i].sequence_number <= candidate_events[j].sequence_number

\* C13 as stated (per-key sequence range): for every key of the batch the pair
\* passed to prune_events_by_key is the true minimum and maximum sequence
\* number of the key's candidate events, in whatever order they appear.
C13_TrueMinMaxAnyOrder ==
    call.pc = "prune_event_accumulator" => TrueSequenceRange(call)

\* C13 as amended: the pair is (first seen, last seen), which is the true
\* minimum and maximum when every key's candidate events appear in
\* non-decreasing sequence order.
C13_TrueMinMaxWhenOrdered ==
    call.pc = "prune_event_accumulator" =>
        /\ FirstLastSeen(call)
        /\ SequenceOrdered(call.candidate_events) => TrueSequenceRange(call)

\* The fold has run over three events of one key in sequence order.
C13_Witness ==
    /\ call.pc = "prune_event_accumulator"
    /\ SequenceOrdered(call.candidate_events)
    /\ \E k \in DOMAIN call.sequence_range_by_event_keys :
          /\ Cardinality(SeqsOf(call.candidate_events, k)) = 3
          /\ call.sequence_range_by_event_keys[k][1]
                < call.sequence_range_by_event_keys[k][2]

\* C14 (batch ordering): within one pruner instance every successful batch
\* starts where the successful batch before it ended, so the committed ranges
\* are contiguous and disjoint: when a batch [start, end) is committed, no
\* record below start is still stored (no version was skipped) and no record
\* of a version in [start, end) has been deleted before (no range is issued
\* for deletion again).
C14_BatchOrdering ==
    PruneOk =>
        /\ \A r \in last.pre.db[PrimarySchema] :
              RowVersion(PrimarySchema, r) >= last.pre.least_readable_version
        /\ \A r \in ledger[PrimarySchema] \ last.pre.db[PrimarySchema] :
              ~(/\ last.pre.least_readable_version <= RowVersion(PrimarySchema, r)
                /\ RowVersion(PrimarySchema, r) < last.value)

\* The version at which a range deletion of a batch starts and ends.
BatchStart(op) ==
    IF op.schema = "EventByVersionSchema" THEN op.begin[2] ELSE op.begin[1]

BatchEnd(op) ==
    IF op.schema = "EventByVersionSchema" THEN op.end[2] ELSE op.end[1]

\* The range deletions by version of a batch.
VersionRanges(db_batch) ==
    {op \in db_batch : op.kind = "delete_range" /\ op.schema \in RangeSchemas}

\* The label record_progress sets in the gauge.
GaugeLabel ==
    IF pruner = EVENT_STORE_PRUNER_NAME THEN "event_store" ELSE "write_set"

C16_EmptyCandidateSet ==
    LET start == last.pre.least_readable_version
        end == get_currrent_batch_target(last.pre.least_readable_version,
                                         last.pre.target_version, last.arg)
        candidate_events == get_pruning_candidate_events(last.pre.db, start, end)
    IN  (/\ last.op = "prune"
         /\ pruner = EVENT_STORE_PRUNER_NAME
         /\ last.fail = "none"
         /\ start < end
         /\ EventsIn(last.pre.db, start, end) = {}) =>
            /\ last.outcome = "Ok"
            /\ event_keys_of(candidate_events) = {}
            /\ sequence_range_by_event_keys(candidate_events) = <<>>
            /\ prune_events_by_key(sequence_range_by_event_keys(candidate_events)) = {}
            /\ db = last.pre.db
            /\ last.value = end
            /\ least_readable_version = end

\* A batch over versions without events, in a store with events above it.
C16_Witness ==
    /\ PruneOk
    /\ pruner = EVENT_STORE_PRUNER_NAME
    /\ last.pre.least_readable_version < last.value
    /\ EventsIn(last.pre.db, last.pre.least_readable_version, last.value) = {}
    /\ db["EventSchema"] # {}
    /\ least_readable_version = last.value

\* C17 (gauge publication): after a successful prune the gauge entry whose
\* label is the pruner's name() holds least_readable_version().
C17_GaugeLabelledByName ==
    PruneOk =>
        /\ pruner \in DOMAIN gauge
        /\ gauge[pruner] = least_readable_version

\* The range deletions a prune call has built so far go from the start its
\* candidate scan was given to its batch target.
SingleRange(c) ==
    \A op \in VersionRanges(c.db_batch) :
        /\ BatchStart(op) = c.start
        /\ BatchEnd(op) = c.current_target_version

\* The steps of EventStorePruner::prune between the load of line 40 and the
\* store of record_progress.
AfterScanLoad ==
    {"get_events_by_version_iter", "prune_events_by_version",
     "prune_events_by_key", "prune_event_accumulator", "prune_event_schema",
     "write_schemas", "record_progress"}

C18_TwoCallsDiffer ==
    \E t, u \in Threads :
        /\ t # u
        /\ pruner = EVENT_STORE_PRUNER_NAME
        /\ calls[t].pc = "write_schemas"
        /\ calls[u].pc = "idle"
        /\ ~SingleRange(calls[t])
        /\ \E op \in VersionRanges(calls[t].db_batch) :
              BatchStart(op) = least_readable_version

\* C19 (no underflow in the candidate scan): every call of
\* get_pruning_candidate_events(start, end) made by EventStorePruner::prune
\* has start <= end, so end - start does not wrap around and does not panic.
C19_NoUnderflow ==
    (last.op = "prune" /\ pruner = EVENT_STORE_PRUNER_NAME) =>
        /\ last.pre.least_readable_version
              <= get_currrent_batch_target(last.pre.least_readable_version,
                                           last.pre.target_version, last.arg)
        /\ last.outcome # "panic"

====
